---- MODULE Spec2Model ----
(***************************************************************************)
(* Membership synchronisation protocol of the file transfer application    *)
(* (src/main.py): the registry FileAppServer and the peers FileAppClient.  *)
(*                                                                         *)
(* Text is a sequence of symbols.  A symbol is a separator (" " or "\n"),  *)
(* a decimal digit, a dot, or a word without white space.  Datagrams,      *)
(* names, addresses and file names are texts; ports are integers in the    *)
(* tables and digit texts on the wire.                                     *)
(***************************************************************************)
EXTENDS Integers, Sequences, FiniteSets, TLC

VARIABLES client_table, srv_pc, rx, prev_table, sent,
          srv_inbox, peer_pc, bg_pc, peer_table, inbox,
          offer_res, starts, offers, ack_delivered, admitted

vars == <<client_table, srv_pc, rx, prev_table, sent,
          srv_inbox, peer_pc, bg_pc, peer_table, inbox,
          offer_res, starts, offers, ack_delivered, admitted>>

srv_vars == <<client_table, srv_pc, rx, prev_table, sent>>

peer_vars == <<srv_inbox, peer_pc, bg_pc, peer_table, inbox,
               offer_res, starts, offers, ack_delivered, admitted>>

----------------------------------------------------------------------------
(* Bounds of the model *)

MaxFiles == 2

MaxStarts == 2

MaxOffers == 1

----------------------------------------------------------------------------
(* Program constants *)

MinPort == 1024

MaxPort == 65535

MinRowFields == 5

RegisterFields == 4

----------------------------------------------------------------------------
(* Text *)

SP == " "

NL == "\n"

Digits == <<"0", "1", "2", "3", "4", "5", "6", "7", "8", "9">>

IsDigit(c) == \E d \in 1..10 : Digits[d] = c

DigitVal(c) == (CHOOSE d \in 1..10 : Digits[d] = c) - 1

IsSpace(c) == c = SP \/ c = NL

W(s) == <<s>>

RECURSIVE Join(_, _)
Join(parts, sep) ==
    IF Len(parts) = 0 THEN <<>>
    ELSE IF Len(parts) = 1 THEN parts[1]
    ELSE parts[1] \o <<sep>> \o Join(Tail(parts), sep)

RECURSIVE SplitFrom(_, _, _, _)
SplitFrom(t, sep, i, cur) ==
    IF i > Len(t) THEN <<cur>>
    ELSE IF t[i] = sep THEN <<cur>> \o SplitFrom(t, sep, i + 1, <<>>)
    ELSE SplitFrom(t, sep, i + 1, Append(cur, t[i]))

Split(t, sep) == SplitFrom(t, sep, 1, <<>>)

RECURSIVE FirstSep(_, _, _)
FirstSep(t, sep, i) ==
    IF i > Len(t) THEN 0
    ELSE IF t[i] = sep THEN i
    ELSE FirstSep(t, sep, i + 1)

SplitOnce(t, sep) ==
    LET i == FirstSep(t, sep, 1)
    IN IF i = 0 THEN <<t>>
       ELSE <<SubSeq(t, 1, i - 1), SubSeq(t, i + 1, Len(t))>>

RECURSIVE LStrip(_)
LStrip(t) ==
    IF Len(t) > 0 /\ IsSpace(t[1]) THEN LStrip(Tail(t)) ELSE t

RECURSIVE RStrip(_)
RStrip(t) ==
    IF Len(t) > 0 /\ IsSpace(t[Len(t)]) THEN RStrip(SubSeq(t, 1, Len(t) - 1)) ELSE t

Strip(t) == RStrip(LStrip(t))

IsIntText(t) ==
    LET s == Strip(t)
    IN Len(s) > 0 /\ \A i \in 1..Len(s) : IsDigit(s[i])

RECURSIVE DigitsVal(_)
DigitsVal(s) ==
    IF Len(s) = 0 THEN 0
    ELSE 10 * DigitsVal(SubSeq(s, 1, Len(s) - 1)) + DigitVal(s[Len(s)])

ParseInt(t) == DigitsVal(Strip(t))

RECURSIVE Str(_)
Str(n) ==
    IF n < 10 THEN <<Digits[n + 1]>>
    ELSE Str(n \div 10) \o <<Digits[(n % 10) + 1]>>

----------------------------------------------------------------------------
(* Validators of the registry *)

IsOctet(t) ==
    /\ Len(t) \in 1..3
    /\ \A i \in 1..Len(t) : IsDigit(t[i])
    /\ (Len(t) > 1 => t[1] # "0")
    /\ DigitsVal(t) <= 255

is_valid_ip(ip) ==
    LET parts == Split(ip, ".")
    IN Len(parts) = 4 /\ \A i \in 1..4 : IsOctet(parts[i])

is_valid_port(port) == MinPort <= port /\ port <= MaxPort

----------------------------------------------------------------------------
(* Membership table: a sequence of records in insertion order, names unique *)

Names(table) == {table[i].name : i \in 1..Len(table)}

IndexOf(table, name) == CHOOSE i \in 1..Len(table) : table[i].name = name

Get(table, name) == table[IndexOf(table, name)]

Put(table, rec) ==
    IF rec.name \in Names(table)
    THEN [table EXCEPT ![IndexOf(table, rec.name)] = rec]
    ELSE Append(table, rec)

AppendNew_dup(files, offered) == files \o offered

RECURSIVE AppendNew(_, _)
AppendNew(files, offered) ==
    IF Len(offered) = 0 THEN files
    ELSE AppendNew(IF \E i \in 1..Len(files) : files[i] = offered[1]
                   THEN files ELSE Append(files, offered[1]),
                   Tail(offered))

----------------------------------------------------------------------------
(* Wire codec *)

OnlineText(b) == IF b THEN Str(1) ELSE Str(0)

SerializeRow(info) ==
    info.name \o <<SP>> \o info.ip \o <<SP>> \o Str(info.udp_port) \o <<SP>>
        \o Str(info.tcp_port) \o <<SP>> \o OnlineText(info.online) \o <<SP>>
        \o Join(info.files, SP)

serialize_table(table) ==
    Join([i \in 1..Len(table) |-> SerializeRow(table[i])], NL)

RowOk(fields) ==
    /\ Len(fields) >= MinRowFields
    /\ IsIntText(fields[3])
    /\ IsIntText(fields[4])
    /\ IsIntText(fields[5])

RowRecord(fields) ==
    [name |-> fields[1], ip |-> fields[2],
     udp_port |-> ParseInt(fields[3]), tcp_port |-> ParseInt(fields[4]),
     files |-> SubSeq(fields, 6, Len(fields)),
     online |-> ParseInt(fields[5]) # 0]

RECURSIVE DeserializeRows(_, _)
DeserializeRows(rows, table) ==
    IF Len(rows) = 0 THEN [ok |-> TRUE, table |-> table]
    ELSE LET fields == Split(rows[1], SP)
         IN IF ~RowOk(fields) THEN [ok |-> FALSE, table |-> <<>>]
            ELSE DeserializeRows(Tail(rows), Put(table, RowRecord(fields)))

deserialize_table(table_data) ==
    DeserializeRows(Split(Strip(table_data), NL), <<>>)

----------------------------------------------------------------------------
(* Registry: FileAppServer *)

Dgram(data, to) == [data |-> data, to |-> to]

RecAddr(info) == <<info.ip, info.udp_port>>

(* sendto raises for a port outside 0..65535 and for a host that is not a  *)
(* literal and does not resolve                                            *)
SendFails(to, dns) ==
    \/ to[2] < 0
    \/ to[2] > MaxPort
    \/ (~is_valid_ip(to[1]) /\ ~dns)

BroadcastMsg(info, table_data) ==
    IF info.online
    THEN Dgram(<<"UPDATE", SP>> \o table_data, RecAddr(info))
    ELSE Dgram(<<"DISCONNECTED", SP>> \o info.name, RecAddr(info))

RECURSIVE BroadcastFrom(_, _, _, _)
BroadcastFrom(table, i, table_data, dns) ==
    IF i > Len(table) THEN [sent |-> <<>>, crashed |-> FALSE]
    ELSE IF SendFails(RecAddr(table[i]), dns) THEN [sent |-> <<>>, crashed |-> TRUE]
    ELSE LET rest == BroadcastFrom(table, i + 1, table_data, dns)
         IN [sent |-> <<BroadcastMsg(table[i], table_data)>> \o rest.sent,
             crashed |-> rest.crashed]

broadcast_table(table, dns) ==
    BroadcastFrom(table, 1, serialize_table(table), dns)

IsOnline_never(table, name) == FALSE

IsOnline(table, name) == name \in Names(table) /\ Get(table, name).online

KeptFiles_reset(table, name) == <<>>

KeptFiles(table, name) ==
    IF name \in Names(table) THEN Get(table, name).files ELSE <<>>

MarkOffline_delete(table, name) ==
    SelectSeq(table, LAMBDA info : info.name # name)

MarkOffline(table, name) ==
    Put(table, [Get(table, name) EXCEPT !.online = FALSE])

Outcome(table, out, crashed) == [table |-> table, sent |-> out, crashed |-> crashed]

Dropped_broadcast(table, dns) ==
    Outcome(table, broadcast_table(table, dns).sent, broadcast_table(table, dns).crashed)

Dropped(table, dns) == Outcome(table, <<>>, FALSE)

Snapshot_stale(table, t2) == serialize_table(table)

Snapshot(table, t2) == serialize_table(t2)

RegistrationSends_late(welcome, out) == out \o <<welcome>>

RegistrationSends(welcome, out) == <<welcome>> \o out

handle_registration(table, message, addr, dns) ==
    IF Len(message) # RegisterFields THEN Outcome(table, <<>>, TRUE)
    ELSE LET name == message[1]
             ip == message[2]
             udp_port == message[3]
             tcp_port == message[4]
         IN IF IsOnline(table, name)
            THEN Outcome(table, <<Dgram(<<"ERROR">>, addr)>>, FALSE)
            ELSE IF ~IsIntText(udp_port) \/ ~IsIntText(tcp_port)
            THEN Outcome(table, <<>>, TRUE)
            ELSE LET rec == [name |-> name, ip |-> ip,
                             udp_port |-> ParseInt(udp_port),
                             tcp_port |-> ParseInt(tcp_port),
                             files |-> KeptFiles(table, name),
                             online |-> TRUE]
                     t2 == Put(table, rec)
                     welcome == Dgram(<<"WELCOME", SP>> \o Snapshot(table, t2), addr)
                     b == broadcast_table(t2, dns)
                 IN Outcome(t2, RegistrationSends(welcome, b.sent), b.crashed)

handle_offer(table, message, dns) ==
    IF Len(message) = 0 THEN Outcome(table, <<>>, TRUE)
    ELSE LET client_name == message[1]
             offered_files == Tail(message)
         IN IF client_name \notin Names(table) THEN Dropped(table, dns)
            ELSE LET client == Get(table, client_name)
                     rec == [client EXCEPT !.files = AppendNew(client.files, offered_files)]
                     t2 == Put(table, rec)
                     b == broadcast_table(t2, dns)
                 IN IF b.crashed \/ SendFails(RecAddr(rec), dns)
                    THEN Outcome(t2, b.sent, TRUE)
                    ELSE Outcome(t2, b.sent \o <<Dgram(<<"ACK">>, RecAddr(rec))>>, FALSE)

handle_disconnect(table, message, dns) ==
    IF Len(message) = 0 THEN Outcome(table, <<>>, TRUE)
    ELSE LET name == message[1]
         IN IF name \notin Names(table) THEN Dropped(table, dns)
            ELSE LET t2 == MarkOffline(table, name)
                     b == broadcast_table(t2, dns)
                 IN Outcome(t2, b.sent, b.crashed)

listen_udp(table, data, addr, dns) ==
    LET message == Split(data, SP)
        kind == message[1]
    IN IF kind = <<"REGISTER">> THEN handle_registration(table, Tail(message), addr, dns)
       ELSE IF kind = <<"DISCONNECT">> THEN handle_disconnect(table, Tail(message), dns)
       ELSE IF kind = <<"ACK">> THEN Dropped(table, dns)
       ELSE IF kind = <<"OFFER">> THEN handle_offer(table, Tail(message), dns)
       ELSE Outcome(table, <<>>, FALSE)

----------------------------------------------------------------------------
(* Inputs of the registry taken alone: the datagrams an arbitrary sender   *)
(* can put on its socket                                                   *)

NameA == W("A")

NameB == W("B")

HostIp == <<"1", ".", "2", ".", "3", ".", "4">>

HostName == W("h")

FileNames == {W("f1"), W("f2")}

RECURSIVE SeqsUpTo(_, _)
SeqsUpTo(S, n) ==
    IF n = 0 THEN {<<>>}
    ELSE LET shorter == SeqsUpTo(S, n - 1)
         IN shorter \cup {Append(s, x) : s \in shorter, x \in S}

FileLists == SeqsUpTo(FileNames, MaxFiles)

Msg(fields) == Join(fields, SP)

RegisterMsg(name, ip, udp, tcp) == Msg(<<W("REGISTER"), name, ip, udp, tcp>>)

OfferMsg(name, files) == Msg(<<W("OFFER"), name>> \o files)

DisconnectMsg(name) == Msg(<<W("DISCONNECT"), name>>)

InNames == {NameA, NameB}

InRegister ==
    {RegisterMsg(NameA, HostIp, Str(9101), Str(9201)),
     RegisterMsg(NameA, HostName, Str(9101), Str(9201)),
     RegisterMsg(NameA, HostIp, Str(80), Str(9201)),
     RegisterMsg(NameA, HostIp, Str(70000), Str(9201)),
     RegisterMsg(NameA, HostIp, Str(9101), W("x")),
     RegisterMsg(NameB, HostIp, Str(9102), Str(9202))}

SenderAddr == <<HostIp, 9102>>

WellFormed ==
    InRegister
        \cup {OfferMsg(NameA, fs) : fs \in FileLists}
        \cup {OfferMsg(NameB, <<>>), OfferMsg(NameB, <<W("f1")>>)}
        \cup {DisconnectMsg(n) : n \in InNames}
        \cup {W("ACK")}

Malformed ==
    {W("BOGUS"), W("REGISTER"), Msg(<<W("REGISTER"), NameA>>),
     W("DISCONNECT"), W("OFFER")}

InData == WellFormed \cup Malformed

----------------------------------------------------------------------------
(* Peers: FileAppClient.  Peer p is one process started with fixed         *)
(* arguments.                                                              *)

Peers == {1, 2}

PeerName(p) == IF p = 1 THEN NameA ELSE NameB

PeerUdp(p) == 9100 + p

PeerTcp(p) == 9200 + p

PeerAddr(p) == <<HostIp, PeerUdp(p)>>

SocketOpen(pc) == pc \in {"reg_wait", "cmd", "offer_wait"}

AckMsg == W("ACK")

(* sendto of the registry: the datagram is queued at the socket bound to   *)
(* the destination, or dropped when no socket is bound there               *)
RECURSIVE Deliver(_, _, _)
Deliver(boxes, pcs, out) ==
    IF Len(out) = 0 THEN boxes
    ELSE LET d == out[1]
             b2 == [p \in Peers |->
                      IF d.to = PeerAddr(p) /\ SocketOpen(pcs[p])
                      THEN Append(boxes[p], d.data) ELSE boxes[p]]
         IN Deliver(b2, pcs, Tail(out))

Admits(out) == \E i \in 1..Len(out) : out[i].data[1] = "WELCOME"

AckSentTo(out, p) ==
    \E i \in 1..Len(out) : out[i].data = AckMsg /\ out[i].to = PeerAddr(p)

update_client_table(table_data) == deserialize_table(table_data)

OwnFilesAdded(table, name, filenames) ==
    Put(table, [Get(table, name) EXCEPT !.files = AppendNew(@, filenames)])

----------------------------------------------------------------------------
(* Initial state *)

NoDgram == [data |-> <<>>, addr |-> <<HostIp, 0>>]

Init ==
    /\ client_table = <<>>
    /\ srv_pc = "listening"
    /\ rx = NoDgram
    /\ prev_table = <<>>
    /\ sent = <<>>
    /\ srv_inbox = <<>>
    /\ peer_pc = [p \in Peers |-> "idle"]
    /\ bg_pc = [p \in Peers |-> "none"]
    /\ peer_table = [p \in Peers |-> <<>>]
    /\ inbox = [p \in Peers |-> <<>>]
    /\ offer_res = [p \in Peers |-> "none"]
    /\ starts = 0
    /\ offers = 0
    /\ ack_delivered = [p \in Peers |-> FALSE]
    /\ admitted = [p \in Peers |-> FALSE]

----------------------------------------------------------------------------
(* Registry taken alone: one iteration of listen_udp on any datagram *)

Process(data, addr, dns) ==
    LET r == listen_udp(client_table, data, addr, dns)
    IN /\ rx' = [data |-> data, addr |-> addr]
       /\ prev_table' = client_table
       /\ client_table' = r.table
       /\ sent' = r.sent
       /\ srv_pc' = IF r.crashed THEN "crashed" ELSE "listening"

(* whether name resolution succeeds is an input of the step; it is only    *)
(* consulted when some destination is not an IPv4 literal                  *)
Resolver(table, data) ==
    IF \/ \E i \in 1..Len(table) : ~is_valid_ip(table[i].ip)
       \/ \E f \in {HostName} : \E i \in 1..Len(data) : data[i] = f[1]
    THEN BOOLEAN ELSE {TRUE}

ServerRecv ==
    /\ srv_pc = "listening"
    /\ \E data \in InData : \E dns \in Resolver(client_table, data) :
          Process(data, SenderAddr, dns)
    /\ UNCHANGED peer_vars

Next == ServerRecv

Spec == Init /\ [][Next]_vars

----------------------------------------------------------------------------
(* Registry and peers over a network that neither loses nor reorders the   *)
(* datagrams queued at one socket                                          *)

ServerStep ==
    /\ srv_pc = "listening"
    /\ Len(srv_inbox) > 0
    /\ \E dns \in Resolver(client_table, srv_inbox[1].data) :
          LET r == listen_udp(client_table, srv_inbox[1].data, srv_inbox[1].addr, dns)
          IN /\ client_table' = r.table
             /\ srv_pc' = IF r.crashed THEN "crashed" ELSE "listening"
             /\ inbox' = Deliver(inbox, peer_pc, r.sent)
             /\ ack_delivered' = [p \in Peers |->
                                    ack_delivered[p] \/
                                    (peer_pc[p] = "offer_wait" /\ AckSentTo(r.sent, p))]
             /\ admitted' = [p \in Peers |->
                               admitted[p] \/
                               (srv_inbox[1].addr = PeerAddr(p) /\ Admits(r.sent))]
    /\ srv_inbox' = Tail(srv_inbox)
    /\ UNCHANGED <<rx, prev_table, sent, peer_pc, bg_pc, peer_table, offer_res,
                   starts, offers>>

(* What the foreground loop of main asks for.  OfferLists are the file     *)
(* names left by offer's filter; the early returns of offer (no directory  *)
(* set, no valid file) change nothing and are stuttering steps.  main      *)
(* calls handle_disconnect with silent=False only: sigint_handler is never *)
(* installed.                                                              *)
OfferLists == {<<W("f1")>>}

SilentChoices == {FALSE}

FromPeer(p, data) == [data |-> data, addr |-> PeerAddr(p)]

ToServer(p, data) == Append(srv_inbox, FromPeer(p, data))

DisconnectSends_always(p, silent) == <<FromPeer(p, DisconnectMsg(PeerName(p)))>>

DisconnectSends(p, silent) ==
    IF silent THEN <<>> ELSE <<FromPeer(p, DisconnectMsg(PeerName(p)))>>

Start(p) ==
    /\ peer_pc[p] \in {"idle", "exited", "exited_silent", "failed"}
    /\ starts < MaxStarts
    /\ starts' = starts + 1
    /\ peer_pc' = [peer_pc EXCEPT ![p] = "reg_wait"]
    /\ bg_pc' = [bg_pc EXCEPT ![p] = "none"]
    /\ peer_table' = [peer_table EXCEPT ![p] = <<>>]
    /\ inbox' = [inbox EXCEPT ![p] = <<>>]
    /\ offer_res' = [offer_res EXCEPT ![p] = "none"]
    /\ ack_delivered' = [ack_delivered EXCEPT ![p] = FALSE]
    /\ admitted' = [admitted EXCEPT ![p] = FALSE]
    /\ srv_inbox' = ToServer(p, RegisterMsg(PeerName(p), HostIp,
                                            Str(PeerUdp(p)), Str(PeerTcp(p))))
    /\ UNCHANGED <<srv_vars, offers>>

RegisterReply(p) ==
    /\ peer_pc[p] = "reg_wait"
    /\ Len(inbox[p]) > 0
    /\ LET response == SplitOnce(inbox[p][1], SP)
           welcome == response[1] = W("WELCOME")
           d == IF welcome /\ Len(response) = 2
                THEN update_client_table(response[2])
                ELSE [ok |-> FALSE, table |-> <<>>]
       IN IF welcome /\ d.ok
          THEN /\ peer_table' = [peer_table EXCEPT ![p] = d.table]
               /\ srv_inbox' = ToServer(p, AckMsg)
               /\ inbox' = [inbox EXCEPT ![p] = Tail(@)]
               /\ peer_pc' = [peer_pc EXCEPT ![p] = "cmd"]
               /\ bg_pc' = [bg_pc EXCEPT ![p] = "running"]
          ELSE /\ peer_pc' = [peer_pc EXCEPT ![p] = "failed"]
               /\ inbox' = [inbox EXCEPT ![p] = <<>>]
               /\ UNCHANGED <<peer_table, srv_inbox, bg_pc>>
    /\ UNCHANGED <<srv_vars, offer_res, starts, offers, ack_delivered, admitted>>

run(p) ==
    /\ bg_pc[p] = "running"
    /\ peer_pc[p] \in {"cmd", "offer_wait"}
    /\ Len(inbox[p]) > 0
    /\ inbox' = [inbox EXCEPT ![p] = Tail(@)]
    /\ LET message == SplitOnce(inbox[p][1], SP)
           d == IF Len(message) = 2 THEN update_client_table(message[2])
                ELSE [ok |-> FALSE, table |-> <<>>]
       IN IF message[1] # W("UPDATE")
          THEN UNCHANGED <<peer_table, srv_inbox, bg_pc>>
          ELSE IF d.ok
          THEN /\ peer_table' = [peer_table EXCEPT ![p] = d.table]
               /\ srv_inbox' = ToServer(p, AckMsg)
               /\ UNCHANGED bg_pc
          ELSE /\ bg_pc' = [bg_pc EXCEPT ![p] = "dead"]
               /\ UNCHANGED <<peer_table, srv_inbox>>
    /\ UNCHANGED <<srv_vars, peer_pc, offer_res, starts, offers, ack_delivered,
                   admitted>>

offer(p, filenames) ==
    /\ peer_pc[p] = "cmd"
    /\ offers < MaxOffers
    /\ Len(filenames) > 0
    /\ PeerName(p) \in Names(peer_table[p])
    /\ offers' = offers + 1
    /\ peer_table' = [peer_table EXCEPT ![p] = OwnFilesAdded(@, PeerName(p), filenames)]
    /\ srv_inbox' = ToServer(p, OfferMsg(PeerName(p), filenames))
    /\ peer_pc' = [peer_pc EXCEPT ![p] = "offer_wait"]
    /\ offer_res' = [offer_res EXCEPT ![p] = "none"]
    /\ ack_delivered' = [ack_delivered EXCEPT ![p] = FALSE]
    /\ UNCHANGED <<srv_vars, bg_pc, inbox, starts, admitted>>

(* one iteration of offer's wait loop; elapsed is the outcome of the clock *)
(* test made after a datagram other than ACK                               *)
OfferRecv(p, elapsed) ==
    /\ peer_pc[p] = "offer_wait"
    /\ Len(inbox[p]) > 0
    /\ inbox' = [inbox EXCEPT ![p] = Tail(@)]
    /\ IF inbox[p][1] = AckMsg
       THEN /\ offer_res' = [offer_res EXCEPT ![p] = "ack"]
            /\ peer_pc' = [peer_pc EXCEPT ![p] = "cmd"]
       ELSE IF elapsed
       THEN /\ offer_res' = [offer_res EXCEPT ![p] = "noack"]
            /\ peer_pc' = [peer_pc EXCEPT ![p] = "cmd"]
       ELSE UNCHANGED <<offer_res, peer_pc>>
    /\ UNCHANGED <<srv_vars, srv_inbox, bg_pc, peer_table, starts,
                   offers, ack_delivered, admitted>>

(* closing the socket ends the background loop (OSError, line 127) and    *)
(* drops what is queued at the socket                                      *)
client_handle_disconnect(p, silent) ==
    /\ peer_pc[p] \in {"cmd", "offer_wait"}
    /\ srv_inbox' = srv_inbox \o DisconnectSends(p, silent)
    /\ inbox' = [inbox EXCEPT ![p] = <<>>]
    /\ peer_pc' = [peer_pc EXCEPT ![p] = IF silent THEN "exited_silent" ELSE "exited"]
    /\ bg_pc' = [bg_pc EXCEPT ![p] = IF @ = "running" THEN "stopped" ELSE @]
    /\ UNCHANGED <<srv_vars, peer_table, offer_res, starts, offers,
                   ack_delivered, admitted>>

NextSys ==
    \/ ServerStep
    \/ \E p \in Peers : Start(p)
    \/ \E p \in Peers : RegisterReply(p)
    \/ \E p \in Peers : run(p)
    \/ \E p \in Peers, filenames \in OfferLists : offer(p, filenames)
    \/ \E p \in Peers, elapsed \in BOOLEAN : OfferRecv(p, elapsed)
    \/ \E p \in Peers, silent \in SilentChoices : client_handle_disconnect(p, silent)

SpecSys == Init /\ [][NextSys]_vars

----------------------------------------------------------------------------
(* Registry and one peer over UDP as it is: a datagram on its way to the   *)
(* registry may be lost, any host may put a datagram on the peer's socket, *)
(* and the peer is also ended through handle_disconnect(silent=True), the  *)
(* call sigint_handler makes                                               *)

NetPeers == {1}

StrayUpdate == <<"UPDATE", SP>> \o NameA

Lose ==
    /\ Len(srv_inbox) > 0
    /\ srv_inbox' = Tail(srv_inbox)
    /\ UNCHANGED <<srv_vars, peer_pc, bg_pc, peer_table, inbox, offer_res, starts,
                   offers, ack_delivered, admitted>>

Stray(p) ==
    /\ peer_pc[p] \in {"cmd", "offer_wait"}
    /\ bg_pc[p] = "running"
    /\ StrayUpdate \notin {inbox[p][i] : i \in 1..Len(inbox[p])}
    /\ inbox' = [inbox EXCEPT ![p] = Append(@, StrayUpdate)]
    /\ UNCHANGED <<srv_vars, srv_inbox, peer_pc, bg_pc, peer_table, offer_res,
                   starts, offers, ack_delivered, admitted>>

NextNet ==
    \/ ServerStep
    \/ \E p \in NetPeers : Start(p)
    \/ \E p \in NetPeers : RegisterReply(p)
    \/ \E p \in NetPeers : run(p)
    \/ \E p \in NetPeers, filenames \in OfferLists : offer(p, filenames)
    \/ \E p \in NetPeers, elapsed \in BOOLEAN : OfferRecv(p, elapsed)
    \/ \E p \in NetPeers, silent \in BOOLEAN : client_handle_disconnect(p, silent)
    \/ Lose
    \/ \E p \in NetPeers : Stray(p)

SpecNet == Init /\ [][NextNet]_vars

----------------------------------------------------------------------------
(* Observers of the last datagram the registry processed *)

RxDone == rx # NoDgram

RxMsg == Split(rx.data, SP)

RxKind == RxMsg[1]

RxArgs == Tail(RxMsg)

IsPrefix(s, t) == Len(s) <= Len(t) /\ SubSeq(t, 1, Len(s)) = s

NoDup(files) == \A i, j \in 1..Len(files) : files[i] = files[j] => i = j

Elems(q) == {q[i] : i \in 1..Len(q)}

UpdateOf(table) == <<"UPDATE", SP>> \o serialize_table(table)

UpdateDests == SelectSeq(sent, LAMBDA d : d.data[1] = "UPDATE")

OnlineRecords(table) == SelectSeq(table, LAMBDA info : info.online)

RECURSIVE AddrsOf(_)
AddrsOf(recs) ==
    IF Len(recs) = 0 THEN <<>> ELSE <<RecAddr(recs[1])>> \o AddrsOf(Tail(recs))

RECURSIVE DestsOf(_)
DestsOf(out) ==
    IF Len(out) = 0 THEN <<>> ELSE <<out[1].to>> \o DestsOf(Tail(out))

----------------------------------------------------------------------------
(* C1: every REGISTER, DISCONNECT or OFFER that the registry processed and *)
(* that changed its table is followed by one UPDATE with the new snapshot  *)
(* to every record that is online after the change, in table order, the    *)
(* triggering peer included, and to no one else.                           *)
C1_UpdateToEveryOnline ==
    (/\ RxDone
     /\ RxKind \in {W("REGISTER"), W("DISCONNECT"), W("OFFER")}
     /\ client_table # prev_table)
    => /\ DestsOf(UpdateDests) = AddrsOf(OnlineRecords(client_table))
       /\ \A d \in Elems(UpdateDests) : d.data = UpdateOf(client_table)

(* C2: a REGISTER of four fields for a name that is online is answered     *)
(* with ERROR to the sender and nothing else, and leaves the table and the *)
(* receive loop as they were.                                              *)
RxRegisterOnline ==
    /\ RxDone
    /\ RxKind = W("REGISTER")
    /\ Len(RxArgs) = RegisterFields
    /\ RxArgs[1] \in Names(prev_table)
    /\ Get(prev_table, RxArgs[1]).online

C2_OnlineRegisterRejected ==
    RxRegisterOnline
    => /\ sent = <<Dgram(W("ERROR"), rx.addr)>>
       /\ client_table = prev_table
       /\ srv_pc = "listening"

C2_Witness ==
    /\ RxRegisterOnline
    /\ Len(prev_table) = 2
    /\ Get(prev_table, RxArgs[1]).files # <<>>
    /\ RecAddr(Get(prev_table, RxArgs[1])) # <<RxArgs[2], ParseInt(RxArgs[3])>>

(* C3: a REGISTER with numeric ports for a name whose record is offline    *)
(* sets that record online in its place, keeps its file list, and adds no  *)
(* second record for the name.                                             *)
RxRegisterOffline ==
    /\ RxDone
    /\ RxKind = W("REGISTER")
    /\ Len(RxArgs) = RegisterFields
    /\ RxArgs[1] \in Names(prev_table)
    /\ ~Get(prev_table, RxArgs[1]).online
    /\ IsIntText(RxArgs[3])
    /\ IsIntText(RxArgs[4])

C3_ReactivationKeepsFiles ==
    RxRegisterOffline
    => LET name == RxArgs[1]
           i == IndexOf(prev_table, name)
       IN /\ Len(client_table) = Len(prev_table)
          /\ client_table[i].name = name
          /\ client_table[i].online
          /\ client_table[i].files = prev_table[i].files
          /\ \A j \in 1..Len(client_table) : client_table[j].name = name => j = i

C3_Witness ==
    /\ RxRegisterOffline
    /\ Len(Get(prev_table, RxArgs[1]).files) = 2
    /\ Get(client_table, RxArgs[1]).online
    /\ Len(client_table) = 2

(* C4: the table of the running registry, when it holds records and all   *)
(* of them have a valid address and valid ports, is reproduced by          *)
(* serialize_table followed by deserialize_table: same records in the same *)
(* order, an empty file list decoded as an empty list.                     *)
C4_RoundTrip ==
    (/\ Len(client_table) > 0
     /\ srv_pc = "listening"
     /\ \A i \in 1..Len(client_table) :
           /\ is_valid_ip(client_table[i].ip)
           /\ is_valid_port(client_table[i].udp_port)
           /\ is_valid_port(client_table[i].tcp_port))
    => LET d == deserialize_table(serialize_table(client_table))
       IN d.ok /\ d.table = client_table

(* C5: every record of the table has an IPv4 literal as address and both   *)
(* ports in [1024, 65535].                                                 *)
C5_RecordsValid ==
    \A i \in 1..Len(client_table) :
        /\ is_valid_ip(client_table[i].ip)
        /\ is_valid_port(client_table[i].udp_port)
        /\ is_valid_port(client_table[i].tcp_port)

(* C6: a datagram with an unknown kind, a REGISTER with a wrong number of  *)
(* fields or a non-numeric port, or a DISCONNECT or OFFER without a name   *)
(* leaves the table unchanged and the receive loop running.                *)
BadDatagram ==
    \/ RxKind \notin {W("REGISTER"), W("DISCONNECT"), W("OFFER"), W("ACK")}
    \/ /\ RxKind = W("REGISTER")
       /\ \/ Len(RxArgs) # RegisterFields
          \/ ~IsIntText(RxArgs[3])
          \/ ~IsIntText(RxArgs[4])
    \/ /\ RxKind \in {W("DISCONNECT"), W("OFFER")}
       /\ Len(RxArgs) = 0

C6_LoopSurvivesBadDatagram ==
    (RxDone /\ BadDatagram) => (srv_pc = "listening" /\ client_table = prev_table)

(* C7: a step of the registry keeps every record at its place under its    *)
(* name, and the file list a record had is a prefix of the one it has.     *)
C7_TableOnlyGrows ==
    \A i \in 1..Len(prev_table) :
        /\ i <= Len(client_table)
        /\ client_table[i].name = prev_table[i].name
        /\ IsPrefix(prev_table[i].files, client_table[i].files)

C7_Witness ==
    /\ RxDone
    /\ RxKind = W("DISCONNECT")
    /\ Len(RxArgs) = 1
    /\ Len(prev_table) = 2
    /\ Len(client_table) = 2
    /\ \E i \in 1..2 :
          /\ prev_table[i].name = RxArgs[1]
          /\ prev_table[i].online
          /\ ~client_table[i].online
          /\ Len(client_table[i].files) = 2

(* C8: an OFFER for a known name whose file names are all on record leaves *)
(* the table unchanged, and no record lists a file name twice.             *)
RxOfferKnown ==
    /\ RxDone
    /\ RxKind = W("OFFER")
    /\ Len(RxArgs) > 1
    /\ RxArgs[1] \in Names(prev_table)
    /\ Elems(Tail(RxArgs)) \subseteq Elems(Get(prev_table, RxArgs[1]).files)

C8_OfferIdempotent ==
    /\ RxOfferKnown => client_table = prev_table
    /\ \A i \in 1..Len(client_table) : NoDup(client_table[i].files)

C8_Witness ==
    /\ RxOfferKnown
    /\ Len(RxArgs) = 3
    /\ Len(Get(client_table, RxArgs[1]).files) = 2
    /\ srv_pc = "listening"

----------------------------------------------------------------------------
(* C9: once every datagram sent has been delivered and processed, the      *)
(* cached table of every peer that is still running holds the same records *)
(* as the table of the registry.                                           *)
Quiescent ==
    /\ srv_inbox = <<>>
    /\ \A p \in Peers : inbox[p] = <<>> /\ peer_pc[p] \notin {"reg_wait", "offer_wait"}

C9_CachesAgree ==
    Quiescent
    => \A p \in Peers :
          (peer_pc[p] = "cmd" /\ bg_pc[p] = "running")
          => Elems(peer_table[p]) = Elems(client_table)

(* C10: while a peer's offer call waits and the registry's ACK for its     *)
(* OFFER has been queued at the peer's socket, the ACK is still in that    *)
(* queue for the offer call to read: nothing else takes it, so the call    *)
(* can end with success.                                                   *)
C10_OfferSeesAck ==
    \A p \in Peers :
        (ack_delivered[p] /\ peer_pc[p] = "offer_wait")
        => AckMsg \in Elems(inbox[p])


(* C12 as stated: a REGISTER that the registry admits is answered with     *)
(* WELCOME first, and its UPDATEs go to the online records other than the  *)
(* registering one, which gets no UPDATE.                                  *)
RxAdmitted ==
    /\ RxDone
    /\ RxKind = W("REGISTER")
    /\ Len(RxArgs) = RegisterFields
    /\ ~IsOnline(prev_table, RxArgs[1])
    /\ IsIntText(RxArgs[3])
    /\ IsIntText(RxArgs[4])

WelcomeOf(table) == <<"WELCOME", SP>> \o serialize_table(table)

WelcomeFirst ==
    /\ Len(sent) >= 1
    /\ sent[1] = Dgram(WelcomeOf(client_table), rx.addr)
    /\ \A i \in 2..Len(sent) : sent[i].data[1] # "WELCOME"

OtherOnline(name) ==
    SelectSeq(client_table, LAMBDA info : info.online /\ info.name # name)

C12_NoUpdateToRegistrant ==
    RxAdmitted
    => /\ WelcomeFirst
       /\ DestsOf(UpdateDests) = AddrsOf(OtherOnline(RxArgs[1]))

(* C12 amended: a REGISTER that the registry admits is answered with       *)
(* WELCOME as the first datagram of the step, to the sender, with the      *)
(* table after the admission; the UPDATEs that follow go to the online     *)
(* records in table order, the record just admitted included: to all of    *)
(* them when the step completes, to a leading part of them when a send of  *)
(* the broadcast raises.                                                   *)
C12_WelcomeThenUpdateToAll ==
    RxAdmitted
    => /\ WelcomeFirst
       /\ IsOnline(client_table, RxArgs[1])
       /\ IsPrefix(DestsOf(UpdateDests), AddrsOf(OnlineRecords(client_table)))
       /\ srv_pc = "listening"
            => DestsOf(UpdateDests) = AddrsOf(OnlineRecords(client_table))

C12_Witness ==
    /\ RxAdmitted
    /\ srv_pc = "listening"
    /\ Len(OnlineRecords(client_table)) = 2
    /\ Len(UpdateDests) = 2
    /\ RecAddr(Get(client_table, RxArgs[1])) # rx.addr
    /\ \E d \in Elems(UpdateDests) : d.to = RecAddr(Get(client_table, RxArgs[1]))

(* C13: the registry sends DISCONNECTED only while it processes a          *)
(* DISCONNECT, and only with the name that DISCONNECT carries: a REGISTER, *)
(* an OFFER or a DISCONNECT of another name sends nothing to an offline    *)
(* record.                                                                 *)
C13_DisconnectedOnlyOnDisconnect ==
    \A d \in Elems(sent) :
        d.data[1] = "DISCONNECTED"
        => /\ RxKind = W("DISCONNECT")
           /\ Len(RxArgs) >= 1
           /\ d.data = <<"DISCONNECTED", SP>> \o RxArgs[1]

(* C18: an OFFER or DISCONNECT whose name is not in the table, and any     *)
(* ACK, leave the table as it was and make the registry send nothing.      *)
RxUnknownOrAck ==
    /\ RxDone
    /\ \/ RxKind = W("ACK")
       \/ /\ RxKind \in {W("OFFER"), W("DISCONNECT")}
          /\ Len(RxArgs) >= 1
          /\ RxArgs[1] \notin Names(prev_table)

C18_UnknownDropped ==
    RxUnknownOrAck => (client_table = prev_table /\ sent = <<>>)

C18_Witness ==
    /\ RxUnknownOrAck
    /\ RxKind = W("OFFER")
    /\ Len(RxArgs) = 2
    /\ Len(prev_table) = 1
    /\ prev_table[1].online
    /\ srv_pc = "listening"

(* C20: every WELCOME and every UPDATE of a registry step carries the      *)
(* encoding of the table as it is after that step's change.                *)
C20_SnapshotIsCurrentTable ==
    \A d \in Elems(sent) :
        /\ d.data[1] = "WELCOME" => d.data = WelcomeOf(client_table)
        /\ d.data[1] = "UPDATE" => d.data = UpdateOf(client_table)

C20_Witness ==
    /\ RxAdmitted
    /\ client_table # prev_table
    /\ Len(UpdateDests) = 2
    /\ sent[1].data[1] = "WELCOME"
    /\ \E i \in 1..Len(client_table) : client_table[i].files # <<>>
    /\ serialize_table(client_table) # serialize_table(prev_table)


(* C19: no peer has ended register() with the registration failure while   *)
(* the registry has admitted the REGISTER of that process and holds the    *)
(* peer's record online.                                                   *)
C19_RegistrationAgrees ==
    \A p \in Peers :
        ~(/\ peer_pc[p] = "failed"
          /\ admitted[p]
          /\ IsOnline(client_table, PeerName(p)))


(* C14: whenever a registered peer whose socket stays open takes a         *)
(* well-formed UPDATE from its socket, in the command loop or inside an    *)
(* offer call, its cached table becomes the decoded snapshot and it sends  *)
(* one ACK to the registry.                                                *)
TakesUpdate(p) ==
    /\ peer_pc[p] \in {"cmd", "offer_wait"}
    /\ peer_pc'[p] \in {"cmd", "offer_wait"}
    /\ Len(inbox[p]) > 0
    /\ inbox[p][1][1] = "UPDATE"
    /\ Len(SplitOnce(inbox[p][1], SP)) = 2
    /\ update_client_table(SplitOnce(inbox[p][1], SP)[2]).ok
    /\ inbox'[p] = Tail(inbox[p])

UpdateApplied(p) ==
    /\ peer_table'[p] = update_client_table(SplitOnce(inbox[p][1], SP)[2]).table
    /\ srv_inbox' = Append(srv_inbox, FromPeer(p, AckMsg))

C14_EveryUpdateApplied ==
    [][\A p \in Peers : TakesUpdate(p) => UpdateApplied(p)]_vars


(* C11: register always finishes, so while it waits for its reply a        *)
(* datagram is queued at the peer's socket or one is still on its way to   *)
(* the registry; register has no other way to leave the wait.              *)
C11_RegisterNeverStuck ==
    \A p \in NetPeers :
        peer_pc[p] = "reg_wait" => (Len(inbox[p]) > 0 \/ Len(srv_inbox) > 0)

(* C15: an UPDATE with a malformed row does not end the peer's receive     *)
(* loop: the background thread of a started peer is never dead.            *)
C15_LoopSurvivesBadUpdate ==
    \A p \in NetPeers : bg_pc[p] # "dead"

(* C16: offer always returns, so while it waits for the ACK a datagram is  *)
(* queued at the peer's socket or one is still on its way to the registry; *)
(* the wait has no other way to end.                                       *)
C16_OfferNeverStuck ==
    \A p \in NetPeers :
        peer_pc[p] = "offer_wait" => (Len(inbox[p]) > 0 \/ Len(srv_inbox) > 0)

(* C17: the step that ends a peer sends one DISCONNECT with the peer's     *)
(* name when it is not silent and nothing when it is silent, and leaves    *)
(* the socket closed and the receive loop stopped; while the peer is ended *)
(* no datagram of it is added to those on their way to the registry.       *)
Ended(pc) == pc \in {"exited", "exited_silent"}

DisconnectStep(p) ==
    /\ peer_pc[p] \in {"cmd", "offer_wait"}
    /\ Ended(peer_pc'[p])

DisconnectEffect(p) ==
    /\ srv_inbox' = srv_inbox \o
                      (IF peer_pc'[p] = "exited"
                       THEN <<FromPeer(p, DisconnectMsg(PeerName(p)))>> ELSE <<>>)
    /\ ~SocketOpen(peer_pc'[p])
    /\ bg_pc'[p] # "running"
    /\ inbox'[p] = <<>>

SilentAfterwards(p) ==
    (Ended(peer_pc[p]) /\ Ended(peer_pc'[p]))
    => /\ srv_inbox' \in {srv_inbox, Tail(srv_inbox)}
       /\ inbox'[p] = <<>>
       /\ bg_pc'[p] # "running"

C17_DisconnectOnceThenSilent ==
    [][\A p \in NetPeers :
          /\ DisconnectStep(p) => DisconnectEffect(p)
          /\ SilentAfterwards(p)]_vars

C17_Witness ==
    /\ peer_pc[1] = "exited_silent"
    /\ srv_inbox = <<>>
    /\ srv_pc = "listening"
    /\ IsOnline(client_table, PeerName(1))
    /\ offer_res[1] = "ack"

============================================================================
